---------------------------- MODULE Spec2Model ----------------------------
(***************************************************************************)
(* Model of src/src/entt/entity/view.hpp: the multi component view         *)
(* basic_view<Entity, exclude_t<X>, A, B> and the single component view    *)
(* basic_view<Entity, exclude_t<>, C> it is composed of.                   *)
(*                                                                         *)
(* The pools (pool.hpp, sparse_set.hpp) are not part of the sources at     *)
(* hand; they are modelled from the table contract of the specification    *)
(* (dense entity array, parallel component array, sparse index, removal    *)
(* by compaction) and from the notes of view.hpp on iteration order        *)
(* ("entities are in the reverse order as returned by the begin/end        *)
(* iterators").                                                            *)
(*                                                                         *)
(* Iterators over a pool are modelled by their offset: an iterator with    *)
(* offset i refers to packed[i] (1-based), begin() has offset size(),      *)
(* end() has offset 0, ++ lowers the offset and -- raises it.              *)
(***************************************************************************)
EXTENDS Integers, Sequences, FiniteSets, TLC

\* ------------------------------------------------------------------ bounds
\* Entity identifiers are 1..MaxEntity.
MaxEntity == 3
\* The pools hold at most MaxEntries elements together.
MaxEntries == 5
\* The body of a loop over the view changes the pools at most MaxChanges times.
MaxChanges == 2

Entity == 1..MaxEntity

\* ------------------------------------------------------ view configuration
\* Component... of the multi component view, in declaration order.
Component == <<"A", "B">>
\* Exclude... of the multi component view, in declaration order.
Exclude == <<"X">>
\* leading_type: the first type of Component.
leading_type == Component[1]
\* Every component type with a pool.
Types == {Component[i] : i \in 1..Len(Component)} \cup {Exclude[i] : i \in 1..Len(Exclude)}
\* The null entity: different from every identifier of Entity.
null == 0

\* The component value assigned to entity e in the pool of type t.  The view
\* never inspects a component, so one distinct value for every type and
\* entity is enough to tell any two components apart.
Payload(t, e) == <<t, e>>

VARIABLES
    eto,     \* the empty types (tags) among Component: fixed when the view is instantiated
    pools,   \* pools[t]: the pool of type t: packed, instances, sparse
    res,     \* the last call on the view and what it returned
    iter,    \* the loop for(it = begin(); it != end(); ++it): its iterator
    hist     \* history of that loop: what it examined and what it yielded

vars == <<eto, pools, res, iter, hist>>

\* is_eto_eligible_v<T>: T is an empty type (a tag), never instantiated.
is_eto_eligible_v(t) == t \in eto

\* The instantiations of the view: which types of Component are empty.
EtoConfigs == SUBSET {Component[i] : i \in 1..Len(Component)}

\* ------------------------------------------------------------------- pool
EmptyPool == [packed |-> <<>>, instances |-> <<>>, sparse |-> [e \in Entity |-> 0]]

pool_size(P, t) == Len(P[t].packed)

pool_empty(P, t) == Len(P[t].packed) = 0

pool_contains(P, t, e) == e \in Entity /\ P[t].sparse[e] # 0

\* index(entt): the dense offset of an entity of the pool.
pool_index(P, t, e) == P[t].sparse[e]

\* get(entt): the component at the entity's dense offset.
pool_get(P, t, e) == P[t].instances[pool_index(P, t, e)]

\* data()[pos]: the dense entity array (0-based pos).
pool_data(P, t, pos) == P[t].packed[pos + 1]

\* begin() / end() of the entity iterators, as offsets.
pool_begin(P, t) == Len(P[t].packed)

pool_end(P, t) == 0

\* find(entt): the iterator to the entity, end() when absent.
pool_find(P, t, e) == IF pool_contains(P, t, e) THEN pool_index(P, t, e) ELSE pool_end(P, t)

\* *it of an entity iterator.  Past the array there is no entity.
pool_deref(P, t, i) == IF i \in 1..Len(P[t].packed) THEN P[t].packed[i] ELSE null

\* *it of a component iterator (pool begin() walks instances like the entities).
pool_deref_instance(P, t, i) == P[t].instances[i]

\* emplace(entt, value): append to both dense arrays, index the entity.
pool_emplace(p, e, v) ==
    [packed    |-> Append(p.packed, e),
     instances |-> Append(p.instances, v),
     sparse    |-> [p.sparse EXCEPT ![e] = Len(p.packed) + 1]]

\* remove(entt): the last element takes the place of the removed one.
pool_remove(p, e) ==
    LET pos  == p.sparse[e]
        n    == Len(p.packed)
        back == p.packed[n]
        pk   == [p.packed EXCEPT ![pos] = back]
        ins  == [p.instances EXCEPT ![pos] = p.instances[n]]
        sp   == [[p.sparse EXCEPT ![back] = pos] EXCEPT ![e] = 0]
    IN  [packed |-> SubSeq(pk, 1, n - 1), instances |-> SubSeq(ins, 1, n - 1), sparse |-> sp]

\* emplace(entt) of the pool of an empty type: the entity alone is stored.
pool_emplace_eto(p, e) ==
    [packed    |-> Append(p.packed, e),
     instances |-> p.instances,
     sparse    |-> [p.sparse EXCEPT ![e] = Len(p.packed) + 1]]

\* remove(entt) of the pool of an empty type.
pool_remove_eto(p, e) ==
    LET pos  == p.sparse[e]
        n    == Len(p.packed)
        back == p.packed[n]
        pk   == [p.packed EXCEPT ![pos] = back]
        sp   == [[p.sparse EXCEPT ![back] = pos] EXCEPT ![e] = 0]
    IN  [packed |-> SubSeq(pk, 1, n - 1), instances |-> p.instances, sparse |-> sp]

\* The pool of type t after emplace / remove of entity e.
pool_after_emplace(P, t, e) ==
    IF is_eto_eligible_v(t) THEN pool_emplace_eto(P[t], e)
    ELSE pool_emplace(P[t], e, Payload(t, e))

pool_after_remove(P, t, e) ==
    IF is_eto_eligible_v(t) THEN pool_remove_eto(P[t], e) ELSE pool_remove(P[t], e)

TotalEntries(P) == pool_size(P, "A") + pool_size(P, "B") + pool_size(P, "X")

\* ------------------------------------------------- single component view
view_type_size(P, t) == pool_size(P, t)

view_type_contains(P, t, e) == pool_contains(P, t, e)

view_type_get(P, t, e) == pool_get(P, t, e)

view_type_begin(P, t) == pool_begin(P, t)

view_type_end(P, t) == pool_end(P, t)

\* find: the pool's iterator, kept only when it refers to the entity asked for.
view_type_find(P, t, e) ==
    LET it == pool_find(P, t, e)
    IN  IF it # view_type_end(P, t) /\ pool_deref(P, t, it) = e THEN it ELSE view_type_end(P, t)

\* Mutant of view_type_at: the entity at offset pos of the entity array.
view_type_at_data(P, t, pos) == pool_data(P, t, pos)

\* operator[](pos): begin()[pos].
view_type_at(P, t, pos) == pool_deref(P, t, view_type_begin(P, t) - pos)

\* -------------------------------------------------- multi component view
\* return_type: the non-empty types of Component, in declaration order.
return_type == SelectSeq(Component, LAMBDA t : ~is_eto_eligible_v(t))

\* Mutant of valid: the excluded types are not looked at.
valid_ignores_exclude(P, entt) ==
    \A i \in 1..Len(Component) :
        Component[i] = leading_type \/ view_type_contains(P, Component[i], entt)

\* valid(entt): every type but the leading one contains the entity and no
\* excluded type does.
valid(P, entt) ==
    /\ \A i \in 1..Len(Component) :
          Component[i] = leading_type \/ view_type_contains(P, Component[i], entt)
    /\ ~(\E j \in 1..Len(Exclude) : view_type_contains(P, Exclude[j], entt))

\* Mutant of contains: the leading type is taken for granted, as valid does.
contains_skips_leading(P, entt) == valid(P, entt)

\* contains(entt): every type of Component contains the entity and no
\* excluded type does.
contains(P, entt) ==
    /\ \A i \in 1..Len(Component) : view_type_contains(P, Component[i], entt)
    /\ ~(\E j \in 1..Len(Exclude) : view_type_contains(P, Exclude[j], entt))

RECURSIVE MinOf(_)
MinOf(s) ==
    IF Len(s) = 1 THEN s[1]
    ELSE LET m == MinOf(Tail(s)) IN IF m < s[1] THEN m ELSE s[1]

\* Mutant of size_hint: the size of the leading type.
size_hint_leading(P) == view_type_size(P, leading_type)

\* size_hint(): the smallest size among the types of Component.
size_hint(P) == MinOf([i \in 1..Len(Component) |-> view_type_size(P, Component[i])])

\* Mutant of view_iterator_advance: the slot the iterator is at is looked at
\* again before moving on: while(it != last && !parent->valid(*it)) ++it;
RECURSIVE view_iterator_advance_lazy(_, _, _)
view_iterator_advance_lazy(P, last, it) ==
    IF it # last /\ ~valid(P, pool_deref(P, leading_type, it))
    THEN view_iterator_advance_lazy(P, last, it - 1)
    ELSE it

\* view_iterator::operator++: while(++it != last && !parent->valid(*it));
\* on the offset of the iterator.
RECURSIVE view_iterator_advance(_, _, _)
view_iterator_advance(P, last, it) ==
    LET next == it - 1
    IN  IF next # last /\ ~valid(P, pool_deref(P, leading_type, next))
        THEN view_iterator_advance(P, last, next)
        ELSE next

view_iterator_inc(P, v) == [v EXCEPT !.it = view_iterator_advance(P, v.last, v.it)]

\* Mutant of view_iterator_retreat: one step back, valid or not.
view_iterator_retreat_plain(P, first, it) == it + 1

\* view_iterator::operator--: while(--it != first && !parent->valid(*it));
\* Moving before the first element of the pool is undefined; the walk of the
\* model ends there.
RECURSIVE view_iterator_retreat(_, _, _)
view_iterator_retreat(P, first, it) ==
    LET prev == it + 1
    IN  IF prev # first /\ prev <= pool_size(P, leading_type)
           /\ ~valid(P, pool_deref(P, leading_type, prev))
        THEN view_iterator_retreat(P, first, prev)
        ELSE prev

view_iterator_dec(P, v) == [v EXCEPT !.it = view_iterator_retreat(P, v.first, v.it)]

\* Mutant of view_iterator: the constructor does not skip an entity that is
\* not valid.
view_iterator_no_skip(P, curr) ==
    [first |-> view_type_begin(P, leading_type),
     last  |-> view_type_end(P, leading_type),
     it    |-> curr]

\* view_iterator(curr, ref): first and last of the leading pool, then skip an
\* entity that is not valid.
view_iterator(P, curr) ==
    LET v == [first |-> view_type_begin(P, leading_type),
              last  |-> view_type_end(P, leading_type),
              it    |-> curr]
    IN  IF v.it # v.last /\ ~valid(P, pool_deref(P, leading_type, v.it))
        THEN view_iterator_inc(P, v)
        ELSE v

\* operator*: the entity the iterator refers to.
view_iterator_deref(P, v) == pool_deref(P, leading_type, v.it)

\* operator==: the offsets alone are compared.
view_iterator_eq(v, w) == v.it = w.it

begin(P) == view_iterator(P, view_type_begin(P, leading_type))

\* Mutant of find: the wrapped iterator is returned without looking at the
\* entity it refers to.
find_no_recheck(P, entt) == view_iterator(P, view_type_find(P, leading_type, entt))

end(P) == view_iterator(P, view_type_end(P, leading_type))

\* front(): *begin(), null for an empty view.
front(P) ==
    LET it == begin(P)
    IN  IF ~view_iterator_eq(it, end(P)) THEN view_iterator_deref(P, it) ELSE null

\* back(): *rbegin(), null for an empty view.  rbegin() wraps end(), rend()
\* wraps begin(); a reverse iterator refers to the element before its base.
back(P) ==
    LET it == end(P)
    IN  IF ~view_iterator_eq(it, begin(P))
        THEN view_iterator_deref(P, view_iterator_dec(P, it))
        ELSE null

\* Mutant of find_wrapped: the iterator stays at the position of the entity
\* in the leading pool.
find_wrapped_at(P, entt) ==
    [first |-> view_type_begin(P, leading_type),
     last  |-> view_type_end(P, leading_type),
     it    |-> view_type_find(P, leading_type, entt)]

\* The first statement of find: iterator it{view_type<leading_type>::find(entt), *this}.
find_wrapped(P, entt) == view_iterator(P, view_type_find(P, leading_type, entt))

\* find(entt): wrap the leading view's iterator, keep it only when it still
\* refers to the entity asked for.
find(P, entt) ==
    LET it == find_wrapped(P, entt)
    IN  IF ~view_iterator_eq(it, end(P)) /\ view_iterator_deref(P, it) = entt
        THEN it
        ELSE end(P)

\* for(it = begin(); it != end(); ++it): the entities *it, in order.
RECURSIVE IterateFrom(_, _)
IterateFrom(P, v) ==
    IF view_iterator_eq(v, end(P)) THEN <<>>
    ELSE <<view_iterator_deref(P, v)>> \o IterateFrom(P, view_iterator_inc(P, v))

Iterate(P) == IterateFrom(P, begin(P))

\* rbegin(): std::make_reverse_iterator(end()); the base iterator is kept.
rbegin(P) == end(P)

\* Mutant of rend: the base is the leading pool's begin, whatever is there.
rend_leading(P) ==
    [first |-> view_type_begin(P, leading_type),
     last  |-> view_type_end(P, leading_type),
     it    |-> view_type_begin(P, leading_type)]

\* rend(): std::make_reverse_iterator(begin()); the base iterator is kept.
rend(P) == begin(P)

\* for(it = rbegin(); it != rend(); ++it): the entities *it, in order.  A
\* reverse iterator refers to the element before its base (*it is *--tmp on
\* a copy of the base) and ++it is --base.
RECURSIVE ReverseIterateFrom(_, _)
ReverseIterateFrom(P, base) ==
    IF view_iterator_eq(base, rend(P)) THEN <<>>
    ELSE LET prev == view_iterator_dec(P, base)
         IN  <<view_iterator_deref(P, prev)>> \o ReverseIterateFrom(P, prev)

ReverseIterate(P) == ReverseIterateFrom(P, rbegin(P))

\* ---------------------------------- single component view: all(), each()
\* *it of the range_iterator of view_type<t>::all(): the entity and, for a
\* non-empty type, the component at the same offset.
view_type_range_deref(P, t, i) ==
    IF is_eto_eligible_v(t)
    THEN <<pool_deref(P, t, i)>>
    ELSE <<pool_deref(P, t, i), pool_deref_instance(P, t, i)>>

\* all(): the records from begin() to end(); ++ moves both iterators.
RECURSIVE view_type_all_from(_, _, _)
view_type_all_from(P, t, i) ==
    IF i = view_type_end(P, t) THEN <<>>
    ELSE <<view_type_range_deref(P, t, i)>> \o view_type_all_from(P, t, i - 1)

view_type_all(P, t) == view_type_all_from(P, t, view_type_begin(P, t))

\* each(func), one sequence of arguments per invocation of func.  withEntity
\* tells which of the two signatures func has.
\* for(pos = size(); pos; --pos) func();
RECURSIVE view_type_each_count(_)
view_type_each_count(pos) ==
    IF pos = 0 THEN <<>> ELSE <<(<<>>)>> \o view_type_each_count(pos - 1)

\* for(entt: *this) func(entt);
RECURSIVE view_type_each_entities(_, _, _)
view_type_each_entities(P, t, it) ==
    IF it = view_type_end(P, t) THEN <<>>
    ELSE <<(<<pool_deref(P, t, it)>>)>> \o view_type_each_entities(P, t, it - 1)

\* for(component: *pool) func(component);
RECURSIVE view_type_each_components(_, _, _)
view_type_each_components(P, t, raw) ==
    IF raw = 0 THEN <<>>
    ELSE <<(<<pool_deref_instance(P, t, raw)>>)>> \o view_type_each_components(P, t, raw - 1)

\* Mutant of view_type_each_pairs: raw is not moved.
RECURSIVE view_type_each_pairs_stuck(_, _, _, _)
view_type_each_pairs_stuck(P, t, it, raw) ==
    IF it = view_type_end(P, t) THEN <<>>
    ELSE <<(<<pool_deref(P, t, it), pool_deref_instance(P, t, raw)>>)>>
         \o view_type_each_pairs_stuck(P, t, it - 1, raw)

\* raw = pool->begin(); for(entt: *this) func(entt, *(raw++));
RECURSIVE view_type_each_pairs(_, _, _, _)
view_type_each_pairs(P, t, it, raw) ==
    IF it = view_type_end(P, t) THEN <<>>
    ELSE <<(<<pool_deref(P, t, it), pool_deref_instance(P, t, raw)>>)>>
         \o view_type_each_pairs(P, t, it - 1, raw - 1)

view_type_each(P, t, withEntity) ==
    IF is_eto_eligible_v(t)
    THEN IF ~withEntity
         THEN view_type_each_count(pool_size(P, t))
         ELSE view_type_each_entities(P, t, view_type_begin(P, t))
    ELSE IF ~withEntity
         THEN view_type_each_components(P, t, pool_begin(P, t))
         ELSE view_type_each_pairs(P, t, view_type_begin(P, t), pool_begin(P, t))

\* ------------------------------------ multi component view: each(), all()
\* Mutant of traverse_get: the component at hand for every type.
traverse_get_at_hand(P, Comp, Other, comp, entt) == comp

\* get<Other>(comp, other, entt): the component at hand for the driving type,
\* the other view's get for every other type.
traverse_get(P, Comp, Other, comp, entt) ==
    IF Comp = Other THEN comp ELSE view_type_get(P, Other, entt)

\* The test of traverse on an entity of the driving type Comp.
traverse_test(P, Comp, entt) ==
    /\ \A i \in 1..Len(Component) :
          Comp = Component[i] \/ view_type_contains(P, Component[i], entt)
    /\ ~(\E j \in 1..Len(Exclude) : view_type_contains(P, Exclude[j], entt))

\* traverse<Comp>(func, return_type) for a non-empty Comp: walk
\* view_type<Comp>::all(), one sequence of arguments per invocation.
RECURSIVE traverse_all(_, _, _, _)
traverse_all(P, Comp, withEntity, i) ==
    IF i = view_type_end(P, Comp) THEN <<>>
    ELSE LET rec  == view_type_range_deref(P, Comp, i)
             entt == rec[1]
             comp == rec[2]
             args == [k \in 1..Len(return_type) |->
                         traverse_get(P, Comp, return_type[k], comp, entt)]
             call == IF withEntity THEN <<entt>> \o args ELSE args
         IN  (IF traverse_test(P, Comp, entt) THEN <<call>> ELSE <<>>)
             \o traverse_all(P, Comp, withEntity, i - 1)

\* Mutant of traverse_entities: with nothing to pass to func, func is invoked
\* for every entity of the driving table, as the single view's each does.
RECURSIVE traverse_entities_every(_, _, _, _)
traverse_entities_every(P, Comp, withEntity, it) ==
    IF it = view_type_end(P, Comp) THEN <<>>
    ELSE LET entt == pool_deref(P, Comp, it)
             args == [k \in 1..Len(return_type) |-> view_type_get(P, return_type[k], entt)]
             call == IF withEntity THEN <<entt>> \o args ELSE args
         IN  (IF traverse_test(P, Comp, entt) \/ (return_type = <<>> /\ ~withEntity)
              THEN <<call>> ELSE <<>>)
             \o traverse_entities_every(P, Comp, withEntity, it - 1)

\* traverse<Comp>(func, return_type) for an empty Comp: walk the entities of
\* view_type<Comp>.
RECURSIVE traverse_entities(_, _, _, _)
traverse_entities(P, Comp, withEntity, it) ==
    IF it = view_type_end(P, Comp) THEN <<>>
    ELSE LET entt == pool_deref(P, Comp, it)
             args == [k \in 1..Len(return_type) |-> view_type_get(P, return_type[k], entt)]
             call == IF withEntity THEN <<entt>> \o args ELSE args
         IN  (IF traverse_test(P, Comp, entt) THEN <<call>> ELSE <<>>)
             \o traverse_entities(P, Comp, withEntity, it - 1)

traverse(P, Comp, withEntity) ==
    IF \E k \in 1..Len(return_type) : return_type[k] = Comp
    THEN traverse_all(P, Comp, withEntity, view_type_begin(P, Comp))
    ELSE traverse_entities(P, Comp, withEntity, view_type_begin(P, Comp))

\* each(func): the fold over Component stops at the first type whose size is
\* the smallest one and traverses it.
\* Mutant of each_fold: every type of the minimum size is traversed.
RECURSIVE each_fold_every(_, _, _, _)
each_fold_every(P, size, withEntity, i) ==
    IF i > Len(Component) THEN <<>>
    ELSE (IF view_type_size(P, Component[i]) = size
          THEN traverse(P, Component[i], withEntity) ELSE <<>>)
         \o each_fold_every(P, size, withEntity, i + 1)

RECURSIVE each_fold(_, _, _, _)
each_fold(P, size, withEntity, i) ==
    IF i > Len(Component) THEN <<>>
    ELSE IF view_type_size(P, Component[i]) = size
         THEN traverse(P, Component[i], withEntity)
         ELSE each_fold(P, size, withEntity, i + 1)

each(P, withEntity) ==
    LET size == MinOf([i \in 1..Len(Component) |-> view_type_size(P, Component[i])])
    IN  each_fold(P, size, withEntity, 1)

\* Mutant of each_with: the smallest type drives, as in each(func).
each_with_smallest(P, Comp, withEntity) == each(P, withEntity)

\* each<Comp>(func): the given type drives.
each_with(P, Comp, withEntity) == traverse(P, Comp, withEntity)

\* range_iterator::operator++ of the multi component view's all().
RECURSIVE range_iterator_advance(_, _, _)
range_iterator_advance(P, last, it) ==
    LET next == it - 1
    IN  IF next # last /\ ~valid(P, view_type_range_deref(P, leading_type, next)[1])
        THEN range_iterator_advance(P, last, next)
        ELSE next

\* range_iterator(curr, ref): skip an entity that is not valid.
range_iterator(P, curr) ==
    LET last == view_type_end(P, leading_type)
    IN  IF curr # last /\ ~valid(P, view_type_range_deref(P, leading_type, curr)[1])
        THEN range_iterator_advance(P, last, curr)
        ELSE curr

\* range_iterator::get<Comp>: the leading view's record, nothing for an empty
\* type, the other view's component otherwise.
range_iterator_get(P, Comp, it) ==
    IF Comp = leading_type THEN view_type_range_deref(P, leading_type, it)
    ELSE IF is_eto_eligible_v(Comp) THEN <<>>
    ELSE <<view_type_get(P, Comp, view_type_range_deref(P, leading_type, it)[1])>>

\* range_iterator::operator*: tuple_cat over Component.
RECURSIVE range_iterator_cat(_, _, _)
range_iterator_cat(P, it, k) ==
    IF k > Len(Component) THEN <<>>
    ELSE range_iterator_get(P, Component[k], it) \o range_iterator_cat(P, it, k + 1)

range_iterator_deref(P, it) == range_iterator_cat(P, it, 1)

\* for(rec: all()): the records from begin() to end().
RECURSIVE all_from(_, _)
all_from(P, it) ==
    IF it = range_iterator(P, view_type_end(P, leading_type)) THEN <<>>
    ELSE <<range_iterator_deref(P, it)>>
         \o all_from(P, range_iterator_advance(P, view_type_end(P, leading_type), it))

\* Mutant of all: the records come in the order of each(func), driven by
\* the smallest table.
all_by_smallest(P) == each(P, TRUE)

\* all(): view_range over the view, from the leading pool's begin() to its end().
all(P) == all_from(P, range_iterator(P, view_type_begin(P, leading_type)))

\* Mutant of get_assert: only the requested types are asked.
get_assert_requested(P, Comps, entt) ==
    \A k \in 1..Len(Comps) : view_type_contains(P, Comps[k], entt)

\* get<Comp...>(entt): ENTT_ASSERT(contains(entt)), whatever Comp... is.
get_assert(P, Comps, entt) == contains(P, entt)

\* get<Comp...>(entt): view_type<Comp>::get(entt) for every requested type.
get_value(P, Comps, entt) == [k \in 1..Len(Comps) |-> view_type_get(P, Comps[k], entt)]

\* What get<Comp...>(entt) can end with.  When the assertion holds: the
\* components.  When it fails: a debug build aborts; a build without
\* assertions returns the components if every requested pool has the entity
\* and is undefined otherwise (any component of the requested types).
get_outcomes(P, Comps, entt) ==
    LET returned(v) == [status |-> "returned", value |-> v]
    IN  IF get_assert(P, Comps, entt) THEN {returned(get_value(P, Comps, entt))}
        ELSE {[status |-> "abort", value |-> <<>>]} \cup
             (IF \A k \in 1..Len(Comps) : view_type_contains(P, Comps[k], entt)
              THEN {returned(get_value(P, Comps, entt))}
              ELSE {returned([k \in 1..Len(Comps) |-> Payload(Comps[k], x)]) : x \in Entity})

\* The lists Comp... get is asked for: one non-empty type, or all of them.
GetRequests ==
    {<<return_type[k]>> : k \in 1..Len(return_type)}
        \cup (IF Len(return_type) >= 2 THEN {return_type} ELSE {})

\* ------------------------------------------------------------ the state
NoCall == [op |-> "none"]

IdleIter == [pc |-> "idle"]

NoHist == [snapshot |-> <<>>, trail |-> <<>>, yielded |-> <<>>, steps |-> 0, changes |-> 0,
           removed |-> {}, inserted |-> {}]

\* The view is instantiated with some of its types empty.  The registry
\* starts with empty pools; no call was made, no loop runs.
Init ==
    /\ eto \in EtoConfigs
    /\ pools = [t \in Types |-> EmptyPool]
    /\ res = NoCall
    /\ iter = IdleIter
    /\ hist = NoHist

\* ------------------------------------------- the registry changes a pool
\* A pool is changed between calls on the view: the result of the last call
\* has been dropped.
\* A component of type t is assigned to entity e.
Emplace(t, e) ==
    /\ iter.pc = "idle"
    /\ res = NoCall
    /\ ~pool_contains(pools, t, e)
    /\ TotalEntries(pools) < MaxEntries
    /\ pools' = [pools EXCEPT ![t] = pool_after_emplace(pools, t, e)]
    /\ UNCHANGED <<eto, res, iter, hist>>

\* The component of type t is removed from entity e.
Remove(t, e) ==
    /\ iter.pc = "idle"
    /\ res = NoCall
    /\ pool_contains(pools, t, e)
    /\ pools' = [pools EXCEPT ![t] = pool_after_remove(pools, t, e)]
    /\ UNCHANGED <<eto, res, iter, hist>>

\* The pools once entity e is destroyed: every component it has is removed.
DestroyIn(P, e) ==
    [t \in Types |-> IF pool_contains(P, t, e) THEN pool_after_remove(P, t, e) ELSE P[t]]

\* Entity e is destroyed.
Destroy(e) ==
    /\ iter.pc = "idle"
    /\ res = NoCall
    /\ pools' = DestroyIn(pools, e)
    /\ UNCHANGED <<eto, res, iter, hist>>

\* ------------------------------------------------------ calls on the view
\* A call is made when the result of the previous one has been dropped.
CallContains(e) ==
    /\ res = NoCall
    /\ res' = [op |-> "contains", entt |-> e, value |-> contains(pools, e)]
    /\ UNCHANGED <<eto, pools, iter, hist>>

CallFind(e) ==
    /\ res = NoCall
    /\ res' = [op |-> "find", entt |-> e, value |-> find(pools, e), last |-> end(pools),
               wrapped |-> find_wrapped(pools, e)]
    /\ UNCHANGED <<eto, pools, iter, hist>>

CallSizeHint ==
    /\ res = NoCall
    /\ res' = [op |-> "size_hint", value |-> size_hint(pools)]
    /\ UNCHANGED <<eto, pools, iter, hist>>

\* for(it = begin(); it != end(); ++it) on pools that do not change.
CallIterate ==
    /\ res = NoCall
    /\ res' = [op |-> "iterate", value |-> Iterate(pools)]
    /\ UNCHANGED <<eto, pools, iter, hist>>

\* for(it = rbegin(); it != rend(); ++it) on pools that do not change.
CallReverseIterate ==
    /\ res = NoCall
    /\ res' = [op |-> "reverse_iterate", value |-> ReverseIterate(pools)]
    /\ UNCHANGED <<eto, pools, iter, hist>>

CallFront ==
    /\ res = NoCall
    /\ res' = [op |-> "front", value |-> front(pools)]
    /\ UNCHANGED <<eto, pools, iter, hist>>

CallBack ==
    /\ res = NoCall
    /\ res' = [op |-> "back", value |-> back(pools)]
    /\ UNCHANGED <<eto, pools, iter, hist>>

CallEach(withEntity) ==
    /\ res = NoCall
    /\ res' = [op |-> "each", withEntity |-> withEntity, value |-> each(pools, withEntity)]
    /\ UNCHANGED <<eto, pools, iter, hist>>

CallEachWith(Comp, withEntity) ==
    /\ res = NoCall
    /\ res' = [op |-> "each_with", comp |-> Comp, withEntity |-> withEntity,
               value |-> each_with(pools, Comp, withEntity)]
    /\ UNCHANGED <<eto, pools, iter, hist>>

CallAll ==
    /\ res = NoCall
    /\ res' = [op |-> "all", value |-> all(pools)]
    /\ UNCHANGED <<eto, pools, iter, hist>>

CallGet(Comps, e) ==
    /\ res = NoCall
    /\ \E out \in get_outcomes(pools, Comps, e) :
          res' = [op |-> "get", comps |-> Comps, entt |-> e,
                  asserted |-> get_assert(pools, Comps, e),
                  status |-> out.status, value |-> out.value]
    /\ UNCHANGED <<eto, pools, iter, hist>>

\* operator[](pos) of the single component view of type t, for a position
\* below size().
CallAt(t, pos) ==
    /\ res = NoCall
    /\ pos < view_type_size(pools, t)
    /\ res' = [op |-> "at", comp |-> t, pos |-> pos, value |-> view_type_at(pools, t, pos)]
    /\ UNCHANGED <<eto, pools, iter, hist>>

\* each(func) of the single component view of type t.
CallViewTypeEach(t, withEntity) ==
    /\ res = NoCall
    /\ res' = [op |-> "view_type_each", comp |-> t, withEntity |-> withEntity,
               value |-> view_type_each(pools, t, withEntity)]
    /\ UNCHANGED <<eto, pools, iter, hist>>

\* The caller is done with the result of its call.
Drop ==
    /\ res # NoCall
    /\ res' = NoCall
    /\ UNCHANGED <<eto, pools, iter, hist>>

Next ==
    \/ \E t \in Types, e \in Entity : Emplace(t, e)
    \/ \E t \in Types, e \in Entity : Remove(t, e)
    \/ \E e \in Entity : Destroy(e)
    \/ \E e \in Entity : CallContains(e)
    \/ \E e \in Entity : CallFind(e)
    \/ CallSizeHint
    \/ CallIterate
    \/ CallFront
    \/ CallBack
    \/ \E w \in BOOLEAN : CallEach(w)
    \/ \E i \in 1..Len(Component), w \in BOOLEAN : CallEachWith(Component[i], w)
    \/ CallAll
    \/ \E t \in Types, w \in BOOLEAN : CallViewTypeEach(t, w)
    \/ \E Comps \in GetRequests, e \in Entity : CallGet(Comps, e)
    \/ CallReverseIterate
    \/ \E t \in Types, pos \in 0..(MaxEntity - 1) : CallAt(t, pos)
    \/ Drop

Spec == Init /\ [][Next]_vars

\* ----------------------------------------------- what the claims speak of
\* Entity e is present in the table of type t: it is in the dense array.
InTable(P, t, e) == \E i \in 1..Len(P[t].packed) : P[t].packed[i] = e

\* Entity e is in the join: in every included table and in no excluded one.
InJoin(P, e) ==
    /\ \A i \in 1..Len(Component) : InTable(P, Component[i], e)
    /\ \A j \in 1..Len(Exclude) : ~InTable(P, Exclude[j], e)

\* The iteration sequence of the table of type t: the dense array backwards.
TableOrder(P, t) ==
    LET n == Len(P[t].packed) IN [k \in 1..n |-> P[t].packed[n - k + 1]]

\* The entities of the join in the iteration order of the table of type t.
JoinOrder(P, t) == SelectSeq(TableOrder(P, t), LAMBDA e : InJoin(P, e))

\* The component stored for entity e in the table of type t: the one at the
\* offset of e in the dense array.
StoredFor(P, t, e) ==
    P[t].instances[CHOOSE i \in 1..Len(P[t].packed) : P[t].packed[i] = e]

NoDuplicates(s) == \A i, j \in 1..Len(s) : s[i] = s[j] => i = j

Range(s) == {s[i] : i \in 1..Len(s)}

MinSize(P) ==
    CHOOSE n \in {Len(P[Component[i]].packed) : i \in 1..Len(Component)} :
        \A i \in 1..Len(Component) : n <= Len(P[Component[i]].packed)

\* The record of an entity of the join: the entity, then the components
\* stored for it in the non-empty included tables.
RecordOf(P, e) == <<e>> \o [k \in 1..Len(return_type) |-> StoredFor(P, return_type[k], e)]

\* The arguments func gets for entity e: with or without the entity.
ArgsOf(P, e, withEntity) == IF withEntity THEN RecordOf(P, e) ELSE Tail(RecordOf(P, e))

\* ----------------------------- the loop over the view while pools change
\* The slots of the leading table the iterator looked at when it moved from
\* offset from down to offset to, first to last: the entity found in the slot
\* and whether it was in the join at that moment.
RECURSIVE Examined(_, _, _)
Examined(P, from, to) ==
    IF from < to \/ from < 1 THEN <<>>
    ELSE <<[entt |-> P[leading_type].packed[from],
            ok   |-> InJoin(P, P[leading_type].packed[from])]>>
         \o Examined(P, from - 1, to)

\* it = begin(): the loop starts; its body sees *it unless it == end().
IterBegin ==
    /\ iter.pc = "idle"
    /\ res = NoCall
    /\ LET v == begin(pools)
           stop == view_iterator_eq(v, end(pools))
       IN  /\ iter' = [pc |-> "live", v |-> v,
                       cur |-> IF stop THEN null ELSE view_iterator_deref(pools, v)]
           /\ hist' = [snapshot |-> pools[leading_type].packed,
                       trail    |-> Examined(pools, v.first, v.it),
                       yielded  |-> IF stop THEN <<>> ELSE <<view_iterator_deref(pools, v)>>,
                       steps    |-> 0,
                       changes  |-> 0,
                       removed  |-> {},
                       inserted |-> {}]
    /\ UNCHANGED <<eto, pools, res>>

\* The loop is in its body: it != end().
InBody == iter.pc = "live" /\ ~view_iterator_eq(iter.v, end(pools))

\* The body may change the pools once more.
MayChange == InBody /\ hist.changes < MaxChanges

\* ++it, then the body sees *it unless it == end().
IterNext ==
    /\ InBody
    /\ LET v == view_iterator_inc(pools, iter.v)
           stop == view_iterator_eq(v, end(pools))
       IN  /\ iter' = [iter EXCEPT !.v = v,
                          !.cur = IF stop THEN null ELSE view_iterator_deref(pools, v)]
           /\ hist' = [hist EXCEPT
                          !.trail = @ \o Examined(pools, iter.v.it - 1, v.it),
                          !.yielded = IF stop THEN @ ELSE Append(@, view_iterator_deref(pools, v)),
                          !.steps = @ + 1]
    /\ UNCHANGED <<eto, pools, res>>

\* The body assigns a component of type t to entity e.
IterEmplace(t, e) ==
    /\ MayChange
    /\ ~pool_contains(pools, t, e)
    /\ TotalEntries(pools) < MaxEntries
    /\ pools' = [pools EXCEPT ![t] = pool_after_emplace(pools, t, e)]
    /\ hist' = [hist EXCEPT !.inserted = @ \cup {t}, !.changes = @ + 1]
    /\ UNCHANGED <<eto, res, iter>>

\* The body removes the component of type t from the entity it got from *it.
IterRemoveCurrent(t) ==
    /\ MayChange
    /\ pool_contains(pools, t, iter.cur)
    /\ pools' = [pools EXCEPT ![t] = pool_after_remove(pools, t, iter.cur)]
    /\ hist' = [hist EXCEPT !.removed = @ \cup {iter.cur}, !.changes = @ + 1]
    /\ UNCHANGED <<eto, res, iter>>

\* The body destroys the entity it got from *it.
IterDestroyCurrent ==
    /\ MayChange
    /\ \E t \in Types : pool_contains(pools, t, iter.cur)
    /\ pools' = DestroyIn(pools, iter.cur)
    /\ hist' = [hist EXCEPT !.removed = @ \cup {iter.cur}, !.changes = @ + 1]
    /\ UNCHANGED <<eto, res, iter>>

NextIter ==
    \/ \E t \in Types, e \in Entity : Emplace(t, e)
    \/ \E t \in Types, e \in Entity : Remove(t, e)
    \/ \E e \in Entity : Destroy(e)
    \/ IterBegin
    \/ IterNext
    \/ \E t \in Types, e \in Entity : IterEmplace(t, e)
    \/ \E t \in Types : IterRemoveCurrent(t)
    \/ IterDestroyCurrent

\* The iterator reads entities only, never a component: the loop is followed
\* for the view without empty types.
InitIter == Init /\ eto = {}

SpecIter == InitIter /\ [][NextIter]_vars

\* --------------------------------------------------------------- claims
\* C1: contains(e) is true exactly when e is present in every included table
\* and absent from every excluded table, on the table contents at the time
\* of the call, whatever insertions, removals and calls came before.
C1_ContainsIsJoin ==
    res.op = "contains" => (res.value <=> InJoin(pools, res.entt))

\* C1 witness: contains was asked for an entity of every included table that
\* the excluded table holds too, while another entity is in the join.
C1_Witness ==
    /\ res.op = "contains"
    /\ \A i \in 1..Len(Component) : InTable(pools, Component[i], res.entt)
    /\ InTable(pools, "X", res.entt)
    /\ ~res.value
    /\ \E e \in Entity : contains(pools, e)

C3_FindIsContains ==
    res.op = "find" =>
        /\ ~view_iterator_eq(res.value, res.last) <=> InJoin(pools, res.entt)
        /\ ~view_iterator_eq(res.value, res.last)
              => view_iterator_deref(pools, res.value) = res.entt

\* C3 witness: find of an entity of the leading table that is not in the
\* join, with an entity of the join after it in the leading table: find
\* returned end().
C3_Witness ==
    /\ res.op = "find"
    /\ InTable(pools, leading_type, res.entt)
    /\ ~InJoin(pools, res.entt)
    /\ \E i \in 1..Len(pools[leading_type].packed) :
          /\ i < pools[leading_type].sparse[res.entt]
          /\ InJoin(pools, pools[leading_type].packed[i])
    /\ view_iterator_eq(res.value, res.last)

\* C4: size_hint() is the smallest size among the included tables and at
\* least the number of entities a full iteration yields.
C4_SizeHint ==
    res.op = "size_hint" =>
        /\ res.value = MinSize(pools)
        /\ res.value >= Len(Iterate(pools))

\* C4 witness: size_hint() on tables where the excluded table is smaller than
\* every included one and the iteration yields fewer entities than the hint.
C4_Witness ==
    /\ res.op = "size_hint"
    /\ res.value >= 2
    /\ Len(pools["X"].packed) < res.value
    /\ Len(Iterate(pools)) < res.value
    /\ Len(Iterate(pools)) >= 1

\* C5: on the same tables each(func) and all() visit the same entities, each
\* entity of the join once in both, and both deliver for every visited entity
\* the components stored for it in the non-empty included tables.
C5_EachAndAllAgree ==
    res.op = "each" =>
        LET a    == all(pools)
            c    == res.value
            join == {e \in Entity : InJoin(pools, e)}
        IN  /\ Len(a) = Cardinality(join)
            /\ Len(c) = Cardinality(join)
            /\ Range(a) = {RecordOf(pools, e) : e \in join}
            /\ Range(c) = {ArgsOf(pools, e, res.withEntity) : e \in join}

\* C5 witness: each(func) driven by a table that is not the leading one, two
\* entities visited, in another order than all() visits them.
C5_Witness ==
    /\ res.op = "each"
    /\ res.withEntity
    /\ Len(res.value) >= 2
    /\ Len(pools["B"].packed) < Len(pools["A"].packed)
    /\ res.value # all(pools)

\* C8: each<Comp>(func) invokes func once for every entity of the join, in
\* the iteration order of Comp's table, whatever the sizes of the tables.
C8_EachWithFollowsComp ==
    res.op = "each_with" =>
        LET order == JoinOrder(pools, res.comp)
        IN  /\ Len(res.value) = Len(order)
            /\ Range(order) = {e \in Entity : InJoin(pools, e)}
            /\ \A k \in 1..Len(order) :
                  res.value[k] = ArgsOf(pools, order[k], res.withEntity)

\* C8 witness: each<B>(func) while B is neither the leading type nor the
\* smallest table; two entities visited, in another order than each(func)
\* visits them.
C8_Witness ==
    /\ res.op = "each_with"
    /\ res.comp = "B"
    /\ Len(pools["B"].packed) > Len(pools["A"].packed)
    /\ Len(res.value) >= 2
    /\ res.value # each(pools, res.withEntity)

\* C9: front() is the first and back() the last entity of the walk
\* begin()..end(); both are null exactly when no entity is in the join.
C9_FrontBack ==
    LET order == JoinOrder(pools, leading_type)
    IN  /\ res.op = "front" =>
              /\ res.value = (IF order = <<>> THEN null ELSE order[1])
              /\ res.value = null <=> ~(\E e \in Entity : InJoin(pools, e))
        /\ res.op = "back" =>
              /\ res.value = (IF order = <<>> THEN null ELSE order[Len(order)])
              /\ res.value = null <=> ~(\E e \in Entity : InJoin(pools, e))

\* C9 witness: back() on a leading table whose last two entities in iteration
\* order are not in the join while an earlier one is.
C9_Witness ==
    /\ res.op = "back"
    /\ Len(pools[leading_type].packed) >= 3
    /\ ~InJoin(pools, pools[leading_type].packed[1])
    /\ ~InJoin(pools, pools[leading_type].packed[2])
    /\ res.value # null

\* C9 witness: front() and back() return null on a leading table that is not
\* empty and has no entity of the join.
C9_WitnessNull ==
    /\ res.op \in {"front", "back"}
    /\ Len(pools[leading_type].packed) >= 2
    /\ res.value = null

\* C10: each(func) of the single table view invokes func once per entity of
\* the table, in the order of begin()..end(); for a non-empty type the
\* component passed is the one stored for the entity, which get(e) returns;
\* for an empty type func gets the entity alone, or nothing.
C10_ViewTypeEach ==
    res.op = "view_type_each" =>
        LET order == TableOrder(pools, res.comp)
        IN  /\ Len(res.value) = Len(order)
            /\ NoDuplicates(order)
            /\ \A k \in 1..Len(order) :
                  IF is_eto_eligible_v(res.comp)
                  THEN res.value[k] = (IF res.withEntity THEN <<order[k]>> ELSE <<>>)
                  ELSE /\ res.value[k] =
                             (IF res.withEntity
                              THEN <<order[k], StoredFor(pools, res.comp, order[k])>>
                              ELSE <<StoredFor(pools, res.comp, order[k])>>)
                       /\ StoredFor(pools, res.comp, order[k])
                             = view_type_get(pools, res.comp, order[k])
                       /\ StoredFor(pools, res.comp, order[k]) = Payload(res.comp, order[k])

\* C10 witness: each(func) with (entity, component) on a table of three
\* entities whose dense array is not in the order of the identifiers.
C10_Witness ==
    /\ res.op = "view_type_each"
    /\ ~is_eto_eligible_v(res.comp)
    /\ res.withEntity
    /\ Len(res.value) = 3
    /\ pools[res.comp].packed[1] > pools[res.comp].packed[2]

\* What holds of a loop whatever the body did among the changes it may make:
\* the iterator looked at the slots of the leading table as they were at
\* begin(), one after the other and each once; the slots ahead of it are
\* untouched; the body saw the entities that were in the join when the
\* iterator reached them, and no others.
LoopExaminesSnapshot ==
    /\ Len(hist.trail) = (IF iter.v.it = iter.v.last
                           THEN iter.v.first
                           ELSE iter.v.first - iter.v.it + 1)
    /\ \A k \in 1..Len(hist.trail) :
          hist.trail[k].entt = hist.snapshot[iter.v.first - k + 1]
    /\ \A p \in 1..(iter.v.it - 1) : pools[leading_type].packed[p] = hist.snapshot[p]

LoopYieldsJoin ==
    hist.yielded = [k \in 1..Len(SelectSeq(hist.trail, LAMBDA r : r.ok)) |->
                       SelectSeq(hist.trail, LAMBDA r : r.ok)[k].entt]

\* Every ++ consumes a slot: after at most as many increments as the leading
\* table had entities at begin() the iterator is end(), and until then ++ can
\* be taken.
LoopEnds ==
    /\ iter.v.it >= iter.v.last
    /\ iter.v.it + hist.steps <= Len(hist.snapshot)
    /\ (iter.v.it # iter.v.last => ENABLED IterNext)

\* C6: when the body removes an included component from the entity the
\* iterator refers to, or destroys that entity, later increments never yield
\* that entity again nor any entity already seen, still yield every entity
\* ahead that is in the join when reached, and reach end().
C6_RemoveCurrentKeepsLoop ==
    (iter.pc = "live" /\ hist.removed # {}) =>
        /\ hist.removed \subseteq Range(hist.yielded)
        /\ NoDuplicates(hist.yielded)
        /\ LoopExaminesSnapshot
        /\ LoopYieldsJoin
        /\ LoopEnds

\* C6 witness: a loop over a leading table of three entities that reached
\* end() after the body removed the leading component from the first entity
\* it saw and another component from the second one; nothing was inserted.
C6_Witness ==
    /\ iter.pc = "live"
    /\ view_iterator_eq(iter.v, end(pools))
    /\ hist.inserted = {}
    /\ Len(hist.snapshot) = 3
    /\ Len(hist.yielded) = 2
    /\ hist.yielded[1] \in hist.removed
    /\ ~InTable(pools, leading_type, hist.yielded[1])
    /\ hist.yielded[2] \in hist.removed
    /\ InTable(pools, leading_type, hist.yielded[2])

\* C7: when the body assigns a component of an included or excluded type to
\* any entity, the loop still reaches end(), yields no entity twice, yields
\* only entities that are in the join when the iterator lands on them, and
\* skips no entity that was ahead in the leading table and is in the join
\* when reached.
C7_EmplaceKeepsLoop ==
    (iter.pc = "live" /\ hist.inserted # {}) =>
        /\ NoDuplicates(hist.yielded)
        /\ \A k \in 1..Len(hist.trail) :
              hist.trail[k].ok <=> hist.trail[k].entt \in Range(hist.yielded)
        /\ LoopExaminesSnapshot
        /\ LoopYieldsJoin
        /\ LoopEnds

\* C7 witness: a loop that reached end() after the body inserted into the
\* leading table and into the other included table, and that yielded two
\* entities; nothing was removed.
C7_Witness ==
    /\ iter.pc = "live"
    /\ view_iterator_eq(iter.v, end(pools))
    /\ {"A", "B"} \subseteq hist.inserted
    /\ hist.removed = {}
    /\ Len(pools[leading_type].packed) > Len(hist.snapshot)
    /\ Len(hist.yielded) >= 2

\* C11: when every included type is empty and func takes no argument,
\* each(func) invokes func, with nothing, as many times as there are entities
\* in the view: size() times for the single table view, once per entity of
\* the join for the multi table view.
C11_TagOnlyNoArguments ==
    /\ (res.op = "view_type_each" /\ is_eto_eligible_v(res.comp) /\ ~res.withEntity) =>
          /\ Len(res.value) = Len(pools[res.comp].packed)
          /\ \A k \in 1..Len(res.value) : res.value[k] = <<>>
    /\ (res.op \in {"each", "each_with"} /\ return_type = <<>> /\ ~res.withEntity) =>
          /\ Len(res.value) = Cardinality({e \in Entity : InJoin(pools, e)})
          /\ \A k \in 1..Len(res.value) : res.value[k] = <<>>

\* C11 witness: each(func) of the multi table view over empty types only,
\* func without arguments, invoked at least once and fewer times than the
\* driving table has entities.
C11_Witness ==
    /\ res.op = "each"
    /\ return_type = <<>>
    /\ ~res.withEntity
    /\ Len(res.value) >= 1
    /\ Len(res.value) < MinSize(pools)

\* C11 witness: each(func) of the single table view of an empty type, func
\* without arguments, on a table of two entities.
C11_WitnessSingle ==
    /\ res.op = "view_type_each"
    /\ is_eto_eligible_v(res.comp)
    /\ ~res.withEntity
    /\ Len(res.value) = 2

\* C12: the assertion of get<T...>(e) holds exactly when e is in the join,
\* whatever T... is; when it holds every component returned is the one stored
\* for e in the table of its type; and get changes no table.
C12_GetState ==
    res.op = "get" =>
        /\ res.asserted <=> InJoin(pools, res.entt)
        /\ res.asserted =>
              /\ res.status = "returned"
              /\ Len(res.value) = Len(res.comps)
              /\ \A k \in 1..Len(res.comps) :
                    /\ res.value[k] = StoredFor(pools, res.comps[k], res.entt)
                    /\ res.value[k] = Payload(res.comps[k], res.entt)

C12_Get == [](C12_GetState) /\ [][res'.op = "get" => pools' = pools]_vars

\* C12 witness: get<A>(e) for an entity that has an A and is not in the join:
\* the assertion failed.
C12_Witness ==
    /\ res.op = "get"
    /\ res.comps = <<"A">>
    /\ InTable(pools, "A", res.entt)
    /\ ~InJoin(pools, res.entt)
    /\ ~res.asserted

\* C12 witness: get<A, B>(e) for an entity of the join, in tables of two
\* entities each.
C12_WitnessValue ==
    /\ res.op = "get"
    /\ Len(res.comps) = 2
    /\ res.asserted
    /\ Len(pools["A"].packed) = 2
    /\ Len(pools["B"].packed) = 2

\* The first included type, in declaration order, whose table has the
\* minimum size.
Driver(P) ==
    Component[CHOOSE i \in 1..Len(Component) :
                 /\ Len(P[Component[i]].packed) = MinSize(P)
                 /\ \A j \in 1..(i - 1) : Len(P[Component[j]].packed) # MinSize(P)]

C13_WitnessSecond ==
    /\ res.op = "each"
    /\ res.withEntity
    /\ Driver(pools) = "B"
    /\ Len(res.value) = 2
    /\ JoinOrder(pools, "A") # JoinOrder(pools, "B")

\* C14 as stated: for every entity of the leading table the iterator that
\* find wraps refers to the entity or equals end(), so that find without the
\* test *it == entt would return the same iterator.
C14_RecheckRedundant ==
    (res.op = "find" /\ InTable(pools, leading_type, res.entt)) =>
        /\ \/ view_iterator_eq(res.wrapped, res.last)
           \/ view_iterator_deref(pools, res.wrapped) = res.entt
        /\ view_iterator_eq(res.wrapped, res.value)

\* C14, amended: the test *it == entt changes nothing only for an entity of
\* the join, where the wrapped iterator refers to the entity.  For an entity
\* of the leading table that is not in the join the wrapped iterator has
\* moved on: it equals end() or refers to another entity, one of the join
\* that comes later in the leading table's iteration order, and the test is
\* what makes find return end().  For an entity that is not in the leading
\* table the wrapped iterator equals end().
C14_RecheckNeeded ==
    res.op = "find" =>
        LET e       == res.entt
            atEnd   == view_iterator_eq(res.wrapped, res.last)
            other   == view_iterator_deref(pools, res.wrapped)
            leading == TableOrder(pools, leading_type)
        IN  /\ InJoin(pools, e) =>
                  /\ ~atEnd
                  /\ other = e
                  /\ view_iterator_eq(res.value, res.wrapped)
            /\ (InTable(pools, leading_type, e) /\ ~InJoin(pools, e)) =>
                  /\ view_iterator_eq(res.value, res.last)
                  /\ ~atEnd =>
                        /\ other # e
                        /\ InJoin(pools, other)
                        /\ \E i, j \in 1..Len(leading) :
                              i < j /\ leading[i] = e /\ leading[j] = other
                  /\ atEnd =>
                        \A i, j \in 1..Len(leading) :
                            (i < j /\ leading[i] = e) => ~InJoin(pools, leading[j])
            /\ ~InTable(pools, leading_type, e) => atEnd

\* C14 witness: find of an entity of the leading table that is not in the
\* join: the wrapped iterator refers to another entity, and find returned
\* end().
C14_Witness ==
    /\ res.op = "find"
    /\ InTable(pools, leading_type, res.entt)
    /\ ~view_iterator_eq(res.wrapped, res.last)
    /\ view_iterator_deref(pools, res.wrapped) # res.entt
    /\ view_iterator_eq(res.value, res.last)

Reversed(s) == [k \in 1..Len(s) |-> s[Len(s) + 1 - k]]

\* C15: on pools that do not change the walk rbegin()..rend() gives the
\* sequence of the walk begin()..end() reversed, and every entity a decrement
\* of that walk lands on is in the join.
C15_ReverseWalk ==
    res.op = "reverse_iterate" =>
        /\ res.value = Reversed(Iterate(pools))
        /\ res.value = Reversed(JoinOrder(pools, leading_type))
        /\ \A k \in 1..Len(res.value) : contains(pools, res.value[k])

\* C15 witness: a leading table of three entities whose first entity in
\* iteration order is not in the join; the walk gave the other two.
C15_Witness ==
    /\ res.op = "reverse_iterate"
    /\ Len(pools[leading_type].packed) = 3
    /\ ~InJoin(pools, TableOrder(pools, leading_type)[1])
    /\ Len(res.value) = 2

\* C15 witness: the first entity of the leading table is in the join and the
\* next one is not.
C15_WitnessMixed ==
    /\ res.op = "reverse_iterate"
    /\ Len(pools[leading_type].packed) = 3
    /\ InJoin(pools, TableOrder(pools, leading_type)[1])
    /\ ~InJoin(pools, TableOrder(pools, leading_type)[2])
    /\ Len(res.value) = 2

C16_WitnessTag ==
    /\ res.op = "all"
    /\ eto = {"B"}
    /\ Len(res.value) = 2
    /\ \A k \in 1..2 : Len(res.value[k]) = 2

\* C17 as stated: operator[](pos) of a single component view returns the
\* entity at offset pos of the table's entity array: view[pos] == data()[pos].
C17_AtIsData ==
    res.op = "at" => res.value = pool_data(pools, res.comp, res.pos)

\* C17, amended: operator[](pos) is begin()[pos], the entity at position pos
\* of the iteration order, and data() is in the reverse order of the
\* iterators: view[pos] == data()[size() - 1 - pos].  It is data()[pos] only
\* at the middle position of a table of odd size.
C17_AtIsIterationOrder ==
    res.op = "at" =>
        LET size == Len(pools[res.comp].packed)
        IN  /\ res.pos < size
            /\ res.value = pool_data(pools, res.comp, size - 1 - res.pos)
            /\ res.value = TableOrder(pools, res.comp)[res.pos + 1]
            /\ res.value = pool_data(pools, res.comp, res.pos) <=> 2 * res.pos = size - 1

\* C17 witness: view[0] of a table of three entities is the last entity of
\* the entity array, not the first.
C17_Witness ==
    /\ res.op = "at"
    /\ Len(pools[res.comp].packed) = 3
    /\ res.pos = 0
    /\ res.value = pool_data(pools, res.comp, 2)
    /\ res.value # pool_data(pools, res.comp, 0)

=============================================================================
